---- MODULE Spec2Model ----
(***************************************************************************)
(* A model of the supply-chain ledger replica: blockchain.py (Block,       *)
(* Blockchain), blockchain_service.py (the HTTP handlers, the sync daemon  *)
(* and the auto-mining daemon) and election.py (detect_master).            *)
(*                                                                         *)
(* Handlers are atomic except where the code blocks for a long time: the   *)
(* proof-of-work loop of mine_block, between the snapshot of the mempool   *)
(* and the append.  blockchain.py and blockchain_service.py each create    *)
(* their own threading.Lock, so the miner (blockchain lock) is not         *)
(* excluded by receive_block and sync_with_network (service lock).         *)
(***************************************************************************)
EXTENDS Integers, Sequences, FiniteSets, TLC

\* ------------------------------------------------------------------ bounds
\* Number of readings of the server clocks (datetime.utcnow()) in a run.
MaxClock == 4
\* Blockchain(max_mempool_size=...), scaled down from the deployment's 1000.
max_mempool_size == 2
\* Number of broadcast messages that can be in flight at once.
MaxNet == 1

\* --------------------------------------------------------------- constants
\* Blockchain(difficulty=2): number of leading zero hex digits of a block hash.
difficulty == 2

\* election.py MASTER_PRIORITY
MASTER_PRIORITY == <<"blockchain1", "blockchain2", "blockchain3">>

\* The replicas that are running; blockchain3 is down for the whole run.
Replicas == {"blockchain1", "blockchain2"}

None == "None"

\* A missing timestamp or signature (Python None / absent key)
Absent == <<>>

\* datetime.utcnow().isoformat(): the string of a clock reading
isoformat(t) == <<t>>

\* ------------------------------------------------------------ actor strings
\* TLC cannot index a string, so the characters of each identity are tabled.
Chars(s) ==
    CASE s = "Supplier_A"    -> <<"S","u","p","p","l","i","e","r","_","A">>
      [] s = "SUPPLIER_X"    -> <<"S","U","P","P","L","I","E","R","_","X">>
      [] s = "Distributor_B" -> <<"D","i","s","t","r","i","b","u","t","o","r","_","B">>
      [] s = "Distributor_C" -> <<"D","i","s","t","r","i","b","u","t","o","r","_","C">>
      [] s = "Retailer_C"    -> <<"R","e","t","a","i","l","e","r","_","C">>
      [] s = "Retailer_D"    -> <<"R","e","t","a","i","l","e","r","_","D">>
      [] s = "supplier"      -> <<"s","u","p","p","l","i","e","r">>
      [] s = "distributor"   -> <<"d","i","s","t","r","i","b","u","t","o","r">>
      [] s = "retailer"      -> <<"r","e","t","a","i","l","e","r">>
      [] OTHER               -> <<>>

\* str.lower() on one character
LowerChar(c) ==
    CASE c = "A" -> "a" [] c = "B" -> "b" [] c = "C" -> "c" [] c = "D" -> "d"
      [] c = "E" -> "e" [] c = "I" -> "i" [] c = "L" -> "l" [] c = "P" -> "p"
      [] c = "R" -> "r" [] c = "S" -> "s" [] c = "U" -> "u" [] c = "X" -> "x"
      [] OTHER -> c

\* str.lower()
lower(cs) == [i \in DOMAIN cs |-> LowerChar(cs[i])]

\* str.startswith()
startswith(cs, prefix) ==
    /\ Len(cs) >= Len(prefix)
    /\ SubSeq(cs, 1, Len(prefix)) = prefix

\* actor.lower().startswith(role)
LowerStartsWith(actor, role) == startswith(lower(Chars(actor)), Chars(role))

\* ------------------------------------------------------------- block hashes
\* Block.compute_hash: SHA-256 of the JSON of the five hashed fields.  The
\* digest is modelled as the hashed content itself, so that two blocks have
\* the same hash exactly when they agree on the five fields.
compute_hash(b) ==
    [index         |-> b.index,
     timestamp     |-> b.timestamp,
     transactions  |-> b.transactions,
     previous_hash |-> b.previous_hash,
     nonce         |-> b.nonce]

\* The number of leading "0" hex digits of a digest: a fixed function of the
\* hashed content that changes with the nonce.
LeadingZeros(h) ==
    LET m == (h.nonce * 5 + h.index * 3 + h.timestamp[1] + Len(h.transactions)) % 7
    IN  IF m = 0 THEN 2 ELSE IF m \in {1, 2} THEN 1 ELSE 0

\* hash_val.startswith("0" * self.difficulty)
HasDifficultyPrefix(h) == LeadingZeros(h) >= difficulty

\* Block(index, timestamp, transactions, previous_hash): nonce 0, hash computed
Block(index, timestamp, transactions, previous_hash) ==
    LET b == [index |-> index, timestamp |-> timestamp,
              transactions |-> transactions,
              previous_hash |-> previous_hash, nonce |-> 0]
    IN  [index |-> index, timestamp |-> timestamp,
         transactions |-> transactions,
         previous_hash |-> previous_hash, nonce |-> 0,
         hash |-> compute_hash(b)]

\* Blockchain.proof_of_work: raise the nonce until the hash has the prefix
RECURSIVE proof_of_work(_)
proof_of_work(block) ==
    LET hash_val == compute_hash(block)
    IN  IF HasDifficultyPrefix(hash_val)
        THEN [block EXCEPT !.hash = hash_val]
        ELSE proof_of_work([block EXCEPT !.nonce = @ + 1])

\* Blockchain.create_genesis_block: Block(0, utcnow(), [], "0")
create_genesis_block(startTime) == Block(0, isoformat(startTime), <<>>, "0")

\* Blockchain.is_chain_valid
is_chain_valid(c) ==
    \A i \in 2..Len(c) :
        /\ c[i].previous_hash = c[i - 1].hash
        /\ compute_hash(c[i]) = c[i].hash

\* ------------------------------------------------------------ batch history
\* The transactions of a chain in chain order
RECURSIVE ChainTxs(_)
ChainTxs(c) ==
    IF c = <<>> THEN <<>>
    ELSE ChainTxs(SubSeq(c, 1, Len(c) - 1)) \o c[Len(c)].transactions

SelectBatch(txs, batch_id) ==
    SelectSeq(txs, LAMBDA tx : tx.batch_id = batch_id)

\* get_history reading only the newest block
get_history_LastBlock(c, batch_id) == SelectBatch(c[Len(c)].transactions, batch_id)

\* Blockchain.get_history
get_history(c, batch_id) == SelectBatch(ChainTxs(c), batch_id)

Actions(txs) == {txs[i].action : i \in DOMAIN txs}

\* any(h["action"] == action and h.get("timestamp") == timestamp for h in ...)
HasKey(txs, batch_id, action, timestamp) ==
    \E i \in DOMAIN txs :
        /\ txs[i].batch_id = batch_id
        /\ txs[i].action = action
        /\ txs[i].timestamp = timestamp

\* ------------------------------------------------------------- signatures
\* The canonical signed form: the transaction without signature / public_key
SignedForm(tx) ==
    [batch_id |-> tx.batch_id, action |-> tx.action, actor |-> tx.actor,
     metadata |-> tx.metadata, timestamp |-> tx.timestamp]

\* CryptoManager.sign_transaction: a signature is modelled by the key that made
\* it and the bytes it was made over.
sign_transaction(actor_name, transaction_data) == <<actor_name, transaction_data>>

\* The actors with a public key in the key directory (setup_actors.py)
KeyDirectory == {"Supplier_A", "Distributor_B", "Retailer_C"}

\* crypto_utils.verify_transaction with CryptoManager.verify_signature: the
\* public key is loaded by the name in tx["actor"]
verify_transaction(tx) ==
    /\ tx.signature # Absent
    /\ tx.actor \in KeyDirectory
    /\ tx.signature = sign_transaction(tx.actor, SignedForm(tx))

\* ------------------------------------------------------------- validation
strict_sequence(action) ==
    CASE action = "registered"      -> None
      [] action = "quality_checked" -> "registered"
      [] action = "shipped"         -> "quality_checked"
      [] action = "received"        -> "shipped"
      [] action = "stored"          -> "received"
      [] action = "delivered"       -> "stored"
      [] action = "received_retail" -> "delivered"
      [] action = "sold"            -> "received_retail"

WorkflowActions ==
    {"registered", "quality_checked", "shipped", "received", "stored",
     "delivered", "received_retail", "sold"}

\* The messages of the validators and the "error" texts of the HTTP answers are
\* tuples: the fixed text followed by the values formatted into it.
Msg1(text) == <<text>>

\* validate_transaction_order looking for duplicates in the chain only
validate_transaction_order_ChainOnly(c, mp, batch_id, action) ==
    LET existing_actions == Actions(get_history(c, batch_id))
        mempool_actions  == Actions(SelectBatch(mp, batch_id))
    IN  IF \/ action \in existing_actions
           \/ action \notin WorkflowActions
           \/ /\ strict_sequence(action) # None
              /\ strict_sequence(action) \notin (existing_actions \cup mempool_actions)
        THEN [valid |-> FALSE, msg |-> <<"Invalid transaction", action>>]
        ELSE [valid |-> TRUE, msg |-> Msg1("Valid transaction")]

\* Blockchain.validate_transaction_order: (valid, message)
validate_transaction_order(c, mp, batch_id, action) ==
    LET existing_actions == Actions(get_history(c, batch_id))
        mempool_actions  == Actions(SelectBatch(mp, batch_id))
        no(msg) == [valid |-> FALSE, msg |-> msg]
    IN  IF action \in existing_actions
        THEN no(<<"Action already performed for batch", action, batch_id>>)
        ELSE IF action \in mempool_actions
        THEN no(<<"Action is already pending in mempool for batch", action, batch_id>>)
        ELSE IF action \notin WorkflowActions
        THEN no(<<"Invalid action. Not in allowed sequence.", action>>)
        ELSE IF /\ strict_sequence(action) # None
                /\ strict_sequence(action) \notin (existing_actions \cup mempool_actions)
        THEN no(<<"Cannot perform without first completing", action,
                  strict_sequence(action)>>)
        ELSE [valid |-> TRUE, msg |-> Msg1("Valid transaction")]

actor_roles(action) ==
    CASE action \in {"registered", "quality_checked", "shipped"} -> "supplier"
      [] action \in {"received", "stored", "delivered"}          -> "distributor"
      [] action \in {"received_retail", "sold"}                  -> "retailer"

group_actions(owner_role) ==
    CASE owner_role = "supplier"    -> {"registered", "quality_checked", "shipped"}
      [] owner_role = "distributor" -> {"received", "stored", "delivered"}
      [] owner_role = "retailer"    -> {"received_retail", "sold"}

\* next((tx for tx in history if tx["action"] == action), None), when there is one
FirstWith(history, action) ==
    LET idx == {i \in DOMAIN history : history[i].action = action}
    IN  history[CHOOSE i \in idx : \A j \in idx : i <= j]

\* Steps 7 and 8 of validate_actor_permissions: the pairing of a receipt with
\* the shipment (or delivery) found in the chain history
PairingCheck(history, sentAction, actor, current_metadata) ==
    IF sentAction \notin Actions(history)
    THEN [valid |-> FALSE, msg |-> <<"Batch must be sent first", sentAction>>]
    ELSE
      LET sent == FirstWith(history, sentAction)
      IN  IF sent.metadata.to # None /\ actor # sent.metadata.to
          THEN [valid |-> FALSE,
                msg |-> <<"Invalid receiver", sent.metadata.to, actor>>]
          ELSE IF /\ current_metadata.from # None
                  /\ current_metadata.from # sent.actor
          THEN [valid |-> FALSE,
                msg |-> <<"Invalid sender in receive metadata", sent.actor,
                          current_metadata.from>>]
          ELSE [valid |-> TRUE, msg |-> Msg1("OK")]

\* validate_actor_permissions letting every actor through
validate_actor_permissions_AnyActor(c, batch_id, action, actor, current_metadata) ==
    [valid |-> TRUE, msg |-> Msg1("OK")]

\* Blockchain.validate_actor_permissions: (ok, message).  history is
\* self.get_history(batch_id): the chain only, never the mempool.
validate_actor_permissions(c, batch_id, action, actor, current_metadata) ==
    LET history == get_history(c, batch_id)
        no(msg) == [valid |-> FALSE, msg |-> msg]
        yes == [valid |-> TRUE, msg |-> Msg1("OK")]
    IN  IF action \notin WorkflowActions THEN no(<<"Unknown action", action>>)
        ELSE IF action = "registered"
             THEN (IF LowerStartsWith(actor, "supplier") THEN yes
                   ELSE no(Msg1("Only suppliers can register batches")))
        ELSE IF history = <<>> THEN no(<<"Batch does not exist yet", batch_id>>)
        ELSE
          LET last_actor == history[Len(history)].actor
              owner_role ==
                  IF LowerStartsWith(last_actor, "supplier") THEN "supplier"
                  ELSE IF LowerStartsWith(last_actor, "distributor") THEN "distributor"
                  ELSE IF LowerStartsWith(last_actor, "retailer") THEN "retailer"
                  ELSE None
          IN  IF owner_role = None THEN no(<<"Unknown previous actor", last_actor>>)
              ELSE IF ~LowerStartsWith(actor, actor_roles(action))
                   THEN no(<<"is not a valid actor for action", actor,
                             actor_roles(action), action>>)
              ELSE IF action \in group_actions(owner_role) /\ actor # last_actor
                   THEN no(<<"Ownership violation", actor, action, last_actor>>)
              ELSE IF action = "received"
                   THEN PairingCheck(history, "shipped", actor, current_metadata)
              ELSE IF action = "received_retail"
                   THEN PairingCheck(history, "delivered", actor, current_metadata)
              ELSE yes

\* ------------------------------------------------------------------ mining
\* The filter of mine_block: drop what is already in the chain
FilterMined(c, mp) ==
    SelectSeq(mp, LAMBDA tx :
        ~HasKey(get_history(c, tx.batch_id), tx.batch_id, tx.action, tx.timestamp))

\* The candidate block of mine_block, after proof_of_work
NewBlock(last_block, transactions, now) ==
    proof_of_work(Block(last_block.index + 1, isoformat(now), transactions,
                        last_block.hash))

\* --------------------------------------------------------------- the state
VARIABLES
    chain,      \* chain[r]: blockchain.chain of replica r, a sequence of blocks
    mempool,    \* mempool[r]: blockchain.mempool of replica r
    mining,     \* mining[r]: the block a mine_block call of r is about to append
    net,        \* broadcast requests in flight
    connected,  \* whether the replicas can reach each other
    clock,      \* the last reading of the server clocks
    sync_threads, \* the replicas with a started sync thread that has not run yet
    db,         \* db[r]: the chain and mempool tables of replica r's database
    handlers,   \* the add-transaction threads between validation and append
    current_metadata, \* current_metadata[r]: blockchain.current_metadata of r
    lock_calls, \* lock_calls[t]: the lock statements thread t runs, and how many
                \* of them it has run
    last        \* the handler that ran last, with its request and its answer

vars ==
    <<chain, mempool, mining, net, connected, clock, sync_threads, db, handlers,
      current_metadata, lock_calls, last>>

Idle == <<>>

\* The threads of one replica that take its locks: the two daemons, the sync
\* thread that receive_block starts, and the thread of a request that reaches
\* a with lock statement
ThreadNames ==
    {"periodic_consensus", "sync_thread", "auto_mining_daemon", "request"}

\* A thread that is in no call that takes a lock
NoCall == [program |-> <<>>, done |-> 0]

\* The instant replica r created its genesis block
StartTime(r) == IF r = "blockchain1" THEN 1 ELSE 2

BootClock == Cardinality(Replicas)

\* Whether k more clock readings fit in the run
ClockLeft(k) == clock - BootClock + k <= MaxClock

\* The hosts that run a replica in this run
Hosts == DOMAIN chain

\* blockchain.nodes of replica r after bootstrap: the other replicas
nodes(r) == Hosts \ {r}

\* Whether a request of replica r reaches node p
Reaches(r, p) == p \in Hosts /\ (p = r \/ connected)

\* The answer of a handler: the HTTP status and the "error" text of the body
Answer(op, node, request, status, error) ==
    [op |-> op, node |-> node, request |-> request, status |-> status,
     error |-> error]

NoRequest == <<>>

\* A body without an "error" key
NoError == <<>>

\* After a step that answers no request
NoAnswer == Answer("none", None, NoRequest, 0, NoError)

\* ------------------------------------------------------- persistent store
\* A table is the sequence of its rows by ascending idx: an INSERT gets an idx
\* greater than every idx of the table.
\* Blockchain._save_block_to_db: INSERT INTO chain
_save_block_to_db(table, block) == Append(table, block)

\* Blockchain._save_tx_to_db: INSERT INTO mempool
_save_tx_to_db(table, tx) == Append(table, tx)

\* Blockchain._delete_mempool_db: DELETE FROM mempool
_delete_mempool_db(table) == <<>>

\* Blockchain._load_from_db: SELECT ... ORDER BY idx on both tables
_load_from_db(d) == [chain |-> d.chain, mempool |-> d.mempool]

\* for tx in ...: self._save_tx_to_db(tx)
RECURSIVE SaveEach(_, _)
SaveEach(table, txs) ==
    IF txs = <<>> THEN table
    ELSE SaveEach(_save_tx_to_db(table, Head(txs)), Tail(txs))

\* The database of a replica that has saved all it holds
Saved(c, mp) == [chain |-> c, mempool |-> mp]

\* The writes of a Blockchain.add_transaction call that returned res: those of
\* the mine_block it ran inline, then the INSERT of the transaction
Persisted(d, res) ==
    LET tx == res.mempool[Len(res.mempool)]
    IN  IF res.mined
        THEN [chain   |-> _save_block_to_db(d.chain, res.chain[Len(res.chain)]),
              mempool |-> _save_tx_to_db(_delete_mempool_db(d.mempool), tx)]
        ELSE [chain   |-> d.chain,
              mempool |-> _save_tx_to_db(d.mempool, tx)]

\* ---------------------------------------------------------------- election
\* An election in which the local node wins every tie
detect_master_LocalFirst(local_hostname, current_chain_length) ==
    LET alive == {i \in DOMAIN MASTER_PRIORITY :
                     \/ MASTER_PRIORITY[i] = local_hostname
                     \/ Reaches(local_hostname, MASTER_PRIORITY[i])}
        chain_length(i) ==
            IF MASTER_PRIORITY[i] = local_hostname THEN current_chain_length
            ELSE Len(chain[MASTER_PRIORITY[i]])
        first(i) == MASTER_PRIORITY[i] = local_hostname
        best == CHOOSE i \in alive : \A j \in alive :
                    \/ chain_length(i) > chain_length(j)
                    \/ chain_length(i) = chain_length(j) /\ first(i)
                    \/ chain_length(i) = chain_length(j) /\ ~first(j) /\ i <= j
    IN  IF alive = {} THEN None ELSE MASTER_PRIORITY[best]

\* election.detect_master: among the nodes that answered, the longest chain,
\* then the earliest in MASTER_PRIORITY; None when nobody is alive
detect_master(local_hostname, current_chain_length) ==
    LET alive == {i \in DOMAIN MASTER_PRIORITY :
                     \/ MASTER_PRIORITY[i] = local_hostname
                     \/ Reaches(local_hostname, MASTER_PRIORITY[i])}
        chain_length(i) ==
            IF MASTER_PRIORITY[i] = local_hostname THEN current_chain_length
            ELSE Len(chain[MASTER_PRIORITY[i]])
        best == CHOOSE i \in alive : \A j \in alive :
                    \/ chain_length(i) > chain_length(j)
                    \/ chain_length(i) = chain_length(j) /\ i <= j
    IN  IF alive = {} THEN None ELSE MASTER_PRIORITY[best]

\* --------------------------------------------------------------- broadcast
\* broadcast(endpoint, data) and Blockchain.broadcast_block: one POST per known
\* node; a POST that fails is logged and forgotten.  copies is the number of
\* times the same body is posted to a node.
Broadcast(n, from, endpoint, data, copies) ==
    LET msgs == {[to |-> p, endpoint |-> endpoint, data |-> data,
                  copies |-> copies] :
                    p \in {q \in nodes(from) : Reaches(from, q)}}
    IN  IF Cardinality(n \cup msgs) <= MaxNet THEN n \cup msgs ELSE n

\* The requests in flight once one copy of msg has reached its handler
Delivered(n, msg) ==
    IF msg.copies > 1
    THEN (n \ {msg}) \cup {[msg EXCEPT !.copies = @ - 1]}
    ELSE n \ {msg}

\* ---------------------------------------------------------- add_transaction
\* An append that writes over the newest block
chain_append_OverTip(c, block) == [c EXCEPT ![Len(c)] = block]

\* self.chain.append(block.to_dict()) of mine_block and accept_block
chain_append(c, block) == Append(c, block)

\* A stored timestamp that is always the one of the request
tx_timestamp_Verbatim(timestamp, utcnow) == timestamp

\* tx["timestamp"] in add_transaction: the client's timestamp, or the server
\* clock when the request has none (a signed request without one was rejected)
tx_timestamp(timestamp, utcnow) ==
    IF timestamp # Absent THEN timestamp ELSE isoformat(utcnow)

\* Steps 3 and 4 of Blockchain.add_transaction for the validated transaction
\* tx, on chain c and mempool mp at clock reading now1: a full mempool is
\* mined inline, then tx is appended
StoreTransaction(c, mp, now1, tx) ==
    LET full  == Len(mp) >= max_mempool_size
        valid_mempool == FilterMined(c, mp)
        mined == full /\ valid_mempool # <<>>
        new_block == NewBlock(c[Len(c)], valid_mempool, now1 + 1)
    IN  [ok      |-> TRUE,
         printed |-> <<"Transaction added", tx.action, tx.batch_id, tx.actor>>,
         chain   |-> IF mined THEN chain_append(c, new_block) ELSE c,
         mempool |-> IF mined THEN <<tx>> ELSE Append(mp, tx),
         clock   |-> IF mined THEN now1 + 1 ELSE now1,
         locks   |-> full,
         mined   |-> mined,
         wrote   |-> TRUE]

\* The tx that Blockchain.add_transaction builds from the body of a request
NewTransaction(req, utcnow) ==
    [batch_id  |-> req.batch_id,
     action    |-> req.action,
     actor     |-> req.actor,
     metadata  |-> req.metadata,
     timestamp |-> tx_timestamp(req.timestamp, utcnow),
     signature |-> req.signature]

\* Blockchain.add_transaction on chain c and mempool mp at clock reading now.
\* wrote tells whether the call got as far as self.current_metadata = metadata.
\* The result: ok is FALSE when the call returns None and printed is the line
\* it prints; chain, mempool and clock are the values after the call and mined
\* tells whether it appended a block.  Step 3, "mempool full", runs mine_block
\* inline.
Blockchain_add_transaction(c, mp, now, req) ==
    LET stamped == req.signature = Absent /\ req.timestamp = Absent
        tx == NewTransaction(req, now + 1)
        now1 == IF stamped THEN now + 1 ELSE now
        order == validate_transaction_order(c, mp, req.batch_id, req.action)
        perm  == validate_actor_permissions(c, req.batch_id, req.action,
                                            req.actor, req.metadata)
        reject(msg, wrote) ==
            [ok |-> FALSE, printed |-> msg, chain |-> c, mempool |-> mp,
             clock |-> now, locks |-> FALSE, mined |-> FALSE, wrote |-> wrote]
    IN  IF req.signature # Absent /\ req.timestamp = Absent
        THEN reject(Msg1("Signed transaction missing 'timestamp'. Rejecting."),
                    FALSE)
        ELSE IF ~order.valid THEN reject(order.msg, FALSE)
        ELSE IF ~perm.valid THEN reject(perm.msg, TRUE)
        ELSE IF req.signature # Absent /\ ~verify_transaction(tx)
             THEN reject(<<"Invalid signature for transaction from", req.actor>>,
                         TRUE)
        ELSE StoreTransaction(c, mp, now1, tx)

\* self.current_metadata = metadata on replica m
SetMetadata(m, metadata) == [current_metadata EXCEPT ![m] = metadata]

\* The leader's part of POST /add-transaction ("MASTER NODE LOGIC") on replica
\* m, for a request that arrived at replica r
LeaderAddTransaction(r, m, req) ==
    LET history == get_history(chain[m], req.batch_id)
        res == Blockchain_add_transaction(chain[m], mempool[m], clock, req)
        refuse(status, error, wrote) ==
            /\ last' = Answer("add-transaction", r, req, status, error)
            /\ current_metadata' = IF wrote THEN SetMetadata(m, req.metadata)
                                   ELSE current_metadata
            /\ UNCHANGED <<chain, mempool, mining, net, connected, clock,
                           sync_threads, db, handlers, lock_calls>>
    IN  IF ~req.complete
        THEN refuse(400, Msg1("Missing transaction fields"), FALSE)
        ELSE IF HasKey(history, req.batch_id, req.action, req.timestamp)
        THEN refuse(409, Msg1("Transaction already exists"), FALSE)
        ELSE IF HasKey(mempool[m], req.batch_id, req.action, req.timestamp)
        THEN refuse(409, Msg1("Transaction already pending"), FALSE)
        ELSE IF ~res.ok /\ req.action \in Actions(history)
        THEN refuse(409, Msg1("Action already performed"), res.wrote)
        ELSE IF ~res.ok
        THEN refuse(400, Msg1("Transaction validation failed"), res.wrote)
        ELSE /\ res.locks => mining[m] = Idle
             /\ current_metadata' = SetMetadata(m, req.metadata)
             /\ res.clock - BootClock <= MaxClock
             /\ chain' = [chain EXCEPT ![m] = res.chain]
             /\ mempool' = [mempool EXCEPT ![m] = res.mempool]
             /\ db' = [db EXCEPT ![m] = Persisted(@, res)]
             /\ clock' = res.clock
             /\ net' = Broadcast(IF res.mined
                                 THEN Broadcast(net, m, "/receive-block",
                                                res.chain[Len(res.chain)], 1)
                                 ELSE net,
                                 m, "/receive-transaction", req, 1)
             /\ last' = Answer("add-transaction", r, req, 201, NoError)
             /\ UNCHANGED <<mining, connected, sync_threads, handlers, lock_calls>>

\* A follower that handles the request itself
Forward_Local(r, master, req) == LeaderAddTransaction(r, r, req)

\* The follower's part of POST /add-transaction on replica r: the body is
\* posted to the master and the master's answer is returned.  The post fails
\* when nobody was elected, or when the link went down after the status poll
\* of detect_master: the answer is 503.
Forward(r, master, req) ==
    \/ /\ master # None
       /\ LeaderAddTransaction(r, master, req)
    \/ /\ connected' = (master = None /\ connected)
       /\ last' = Answer("add-transaction", r, req, 503,
                         <<"Master node is not available", master>>)
       /\ UNCHANGED <<chain, mempool, mining, net, clock, sync_threads, db,
                      handlers,
                   current_metadata, lock_calls>>

\* POST /add-transaction on replica r: a follower forwards to the master it
\* detects and returns the master's answer
add_transaction(r, req) ==
    LET master == detect_master(r, Len(chain[r]))
    IN  IF master = r THEN LeaderAddTransaction(r, r, req)
        ELSE Forward(r, master, req)

\* ------------------------------------------------------------------ mining
\* Blockchain.mine_block up to the end of proof_of_work, under the blockchain
\* lock: the filtered snapshot of the mempool on top of the tip read now
MineStart(r) ==
    /\ mining[r] = Idle
    /\ ClockLeft(1)
    /\ mining' = [mining EXCEPT ![r] =
           <<NewBlock(chain[r][Len(chain[r])], FilterMined(chain[r], mempool[r]),
                      clock + 1)>>]
    /\ clock' = clock + 1

\* A mine_block that never finds its mempool empty
NothingToMine_Never(r) == FALSE

\* Whether mine_block returns None: nothing pending, or nothing left after
\* the filter (the mempool is left as it is)
NothingToMine(r) == FilterMined(chain[r], mempool[r]) = <<>>

\* POST /mine on replica r
mine_block(r) ==
    IF detect_master(r, Len(chain[r])) # r
    THEN /\ last' = Answer("mine", r, NoRequest, 403, Msg1("Only master can mine"))
         /\ UNCHANGED <<chain, mempool, mining, net, connected, clock,
                        sync_threads, db, handlers,
                   current_metadata, lock_calls>>
    ELSE IF NothingToMine(r)
    THEN /\ mining[r] = Idle
         /\ last' = Answer("mine", r, NoRequest, 400, NoError)
         /\ UNCHANGED <<chain, mempool, mining, net, connected, clock,
                        sync_threads, db, handlers,
                   current_metadata, lock_calls>>
    ELSE /\ MineStart(r)
         /\ last' = NoAnswer
         /\ UNCHANGED <<chain, mempool, net, connected, sync_threads, db, handlers,
                   current_metadata, lock_calls>>

\* auto_mining_daemon of replica r when the threshold or the interval is
\* reached: it calls blockchain.mine_block() without asking who the master is
auto_mining_daemon(r) ==
    /\ mempool[r] # <<>>
    /\ ~NothingToMine(r)
    /\ MineStart(r)
    /\ last' = NoAnswer
    /\ UNCHANGED <<chain, mempool, net, connected, sync_threads, db, handlers,
                   current_metadata, lock_calls>>

\* The rest of Blockchain.mine_block: append the block to the chain as it is
\* now, broadcast it, empty the mempool, release the lock; then the caller
\* (POST /mine or auto_mining_daemon) broadcasts the same block once more
MineFinish(r) ==
    /\ mining[r] # Idle
    /\ chain' = [chain EXCEPT ![r] = chain_append(@, mining[r][1])]
    /\ mempool' = [mempool EXCEPT ![r] = <<>>]
    /\ db' = [db EXCEPT ![r] =
                 [chain   |-> _save_block_to_db(@.chain, mining[r][1]),
                  mempool |-> _delete_mempool_db(@.mempool)]]
    /\ net' = Broadcast(net, r, "/receive-block", mining[r][1], 2)
    /\ mining' = [mining EXCEPT ![r] = Idle]
    /\ last' = Answer("mine", r, NoRequest, 201, NoError)
    /\ UNCHANGED <<connected, clock, sync_threads, handlers,
                   current_metadata, lock_calls>>

\* ------------------------------------------------------------ receive-block
\* A pruning that empties the mempool, as mine_block does
Prune_All(mp, transactions) == <<>>

\* The pruning of accept_block: keep what the block does not contain
Prune(mp, transactions) ==
    SelectSeq(mp, LAMBDA tx :
        ~HasKey(transactions, tx.batch_id, tx.action, tx.timestamp))

\* An accept_block that only looks at the link to the tip
accept_block_LinkOnly(c, new_block) ==
    IF new_block.previous_hash # c[Len(c)].hash THEN "Previous hash mismatch"
    ELSE "Block accepted"

\* Blockchain.accept_block: "Block accepted" or the reason of the refusal
accept_block(c, new_block) ==
    IF new_block.previous_hash # c[Len(c)].hash THEN "Previous hash mismatch"
    ELSE IF compute_hash(new_block) # new_block.hash THEN "Invalid block hash"
    ELSE IF \E i \in DOMAIN new_block.transactions :
                LET tx == new_block.transactions[i]
                IN  HasKey(get_history(c, tx.batch_id), tx.batch_id, tx.action,
                           tx.timestamp)
         THEN "Block contains duplicate transaction"
    ELSE "Block accepted"

\* The mempool table after accept_block: _delete_mempool_db, then
\* _save_tx_to_db for each transaction that is left.  The block itself is
\* appended to self.chain only: accept_block does not call _save_block_to_db.
Resaved(table, mp) == SaveEach(_delete_mempool_db(table), mp)

\* A handler that starts no thread
start_sync_thread_Never(threads, r) == threads

\* threading.Thread(target=sync_with_network, daemon=True).start() on replica r
start_sync_thread(threads, r) == threads \cup {r}

\* POST /receive-block on replica msg.to, under the service lock
receive_block(msg) ==
    LET r == msg.to
        new_block == msg.data
    IN  /\ msg.endpoint = "/receive-block"
        /\ net' = Delivered(net, msg)
        /\ IF chain[r][Len(chain[r])].hash # new_block.previous_hash
           THEN /\ sync_threads' = start_sync_thread(sync_threads, r)
                /\ last' = Answer("receive-block", r, new_block, 409, NoError)
                /\ UNCHANGED <<chain, mempool, db>>
           ELSE IF accept_block(chain[r], new_block) = "Block accepted"
           THEN /\ chain' = [chain EXCEPT ![r] = chain_append(@, new_block)]
                /\ mempool' = [mempool EXCEPT ![r] =
                                   Prune(@, new_block.transactions)]
                /\ db' = [db EXCEPT ![r].mempool =
                              Resaved(@, Prune(mempool[r], new_block.transactions))]
                /\ last' = Answer("receive-block", r, new_block, 200, NoError)
                /\ UNCHANGED sync_threads
           ELSE /\ last' = Answer("receive-block", r, new_block, 400, NoError)
                /\ UNCHANGED <<chain, mempool, sync_threads, db>>
        /\ UNCHANGED <<mining, connected, clock, handlers,
                   current_metadata, lock_calls>>

\* ------------------------------------------------------ receive-transaction
\* A replica that never takes itself for a follower
IsFollower_Never(r) == FALSE

\* blockchain.hostname != master, for the master detected now
IsFollower(r) == detect_master(r, Len(chain[r])) # r

\* POST /receive-transaction on replica msg.to
receive_transaction(msg) ==
    LET r == msg.to
        req == msg.data
        res == Blockchain_add_transaction(chain[r], mempool[r], clock, req)
    IN  /\ msg.endpoint = "/receive-transaction"
        /\ IF \/ HasKey(get_history(chain[r], req.batch_id), req.batch_id,
                        req.action, req.timestamp)
              \/ HasKey(mempool[r], req.batch_id, req.action, req.timestamp)
              \/ IsFollower(r)
           THEN /\ last' = Answer("receive-transaction", r, req, 200, NoError)
                /\ net' = net \ {msg}
                /\ UNCHANGED <<chain, mempool, clock, db, current_metadata>>
           ELSE IF ~res.ok
           THEN /\ last' = Answer("receive-transaction", r, req, 400,
                                    Msg1("Invalid replicated transaction"))
                /\ net' = net \ {msg}
                /\ current_metadata' = IF res.wrote
                                       THEN SetMetadata(r, req.metadata)
                                       ELSE current_metadata
                /\ UNCHANGED <<chain, mempool, clock, db>>
           ELSE /\ res.locks => mining[r] = Idle
                /\ current_metadata' = SetMetadata(r, req.metadata)
                /\ res.clock - BootClock <= MaxClock
                /\ chain' = [chain EXCEPT ![r] = res.chain]
                /\ mempool' = [mempool EXCEPT ![r] = res.mempool]
                /\ db' = [db EXCEPT ![r] = Persisted(@, res)]
                /\ clock' = res.clock
                /\ net' = IF res.mined
                          THEN Broadcast(net \ {msg}, r, "/receive-block",
                                         res.chain[Len(res.chain)], 1)
                          ELSE net \ {msg}
                /\ last' = Answer("receive-transaction", r, req, 200, NoError)
        /\ UNCHANGED <<mining, connected, sync_threads, handlers, lock_calls>>

\* -------------------------------------------------------------------- sync
\* A merge that does not look at the signatures
RECURSIVE sync_mempool_Unverified(_, _)
sync_mempool_Unverified(mp, remote_mempool) ==
    IF remote_mempool = <<>> THEN mp
    ELSE LET tx == Head(remote_mempool)
             skip == HasKey(mp, tx.batch_id, tx.action, tx.timestamp)
         IN  sync_mempool_Unverified(IF skip THEN mp ELSE Append(mp, tx),
                                     Tail(remote_mempool))

\* Blockchain.sync_mempool: append the remote transactions whose key is not in
\* the local mempool and whose signature, when they have one, verifies
RECURSIVE sync_mempool(_, _)
sync_mempool(mp, remote_mempool) ==
    IF remote_mempool = <<>> THEN mp
    ELSE LET tx == Head(remote_mempool)
             skip == \/ HasKey(mp, tx.batch_id, tx.action, tx.timestamp)
                     \/ tx.signature # Absent /\ ~verify_transaction(tx)
         IN  sync_mempool(IF skip THEN mp ELSE Append(mp, tx), Tail(remote_mempool))

\* A sync that takes every valid remote chain
should_replace_AnyValid(current_valid, valid_remote, remote_chain, longest_chain) ==
    valid_remote

\* should_replace in sync_with_network, for the chain fetched from one node
should_replace(current_valid, valid_remote, remote_chain, longest_chain) ==
    \/ ~current_valid /\ valid_remote
    \/ current_valid /\ valid_remote /\ Len(remote_chain) > Len(longest_chain)

\* list(blockchain.nodes): the elements of a set, in any order
Orders(S) ==
    {order \in [1..Cardinality(S) -> S] :
        \A i, j \in DOMAIN order : order[i] = order[j] => i = j}

\* The loop of sync_with_network over the known nodes, in the order the set
\* gives them: job holds longest_chain, chain_replaced and max_mempool
RECURSIVE SyncLoop(_, _, _)
SyncLoop(r, order, job) ==
    IF order = <<>> THEN job
    ELSE
      LET node == Head(order)
          remote_chain == chain[node]
          current_valid == is_chain_valid(chain[r])
          valid_remote == is_chain_valid(remote_chain)
          job1 == IF should_replace(current_valid, valid_remote, remote_chain,
                                    job.longest_chain)
                  THEN [job EXCEPT !.longest_chain = remote_chain,
                                   !.chain_replaced = TRUE]
                  ELSE job
          job2 == IF Len(mempool[node]) > Len(job1.max_mempool)
                  THEN [job1 EXCEPT !.max_mempool = mempool[node]]
                  ELSE job1
      IN  IF ~Reaches(r, node) THEN SyncLoop(r, Tail(order), job)
          ELSE IF ~current_valid /\ ~valid_remote
               THEN SyncLoop(r, Tail(order), job)
          ELSE SyncLoop(r, Tail(order), job2)

\* Blockchain.replace_chain followed by _reload_chain_from_db: self.chain and
\* the chain table (DELETE FROM chain, one INSERT per block) both become
\* new_chain
replace_chain(c, new_chain) == new_chain

\* sync_with_network of replica r, under the service lock: fetch the chain and
\* the mempool of every known node, replace the chain, merge the mempool
\* (sync_mempool takes the blockchain lock, which a running mine_block holds)
sync_with_network(r) ==
    /\ \E order \in Orders(nodes(r)) :
         LET job == SyncLoop(r, order, [longest_chain |-> chain[r],
                                        chain_replaced |-> FALSE,
                                        max_mempool |-> mempool[r]])
             merge == Len(job.max_mempool) > Len(mempool[r])
             replace == job.chain_replaced /\ job.longest_chain # chain[r]
             merged == sync_mempool(mempool[r], job.max_mempool)
         IN  /\ merge => mining[r] = Idle
             /\ chain' = [chain EXCEPT ![r] =
                    IF replace THEN replace_chain(@, job.longest_chain) ELSE @]
             /\ mempool' = [mempool EXCEPT ![r] = IF merge THEN merged ELSE @]
             /\ db' = [db EXCEPT ![r] =
                    [chain   |-> IF replace
                                 THEN replace_chain(@.chain, job.longest_chain)
                                 ELSE @.chain,
                     mempool |-> IF merge
                                 THEN SaveEach(@.mempool,
                                               SubSeq(merged, Len(mempool[r]) + 1,
                                                      Len(merged)))
                                 ELSE @.mempool]]
    /\ UNCHANGED <<mining, net, connected, clock, handlers,
                   current_metadata, lock_calls>>

\* periodic_consensus of replica r: a sync cycle every 30 seconds
periodic_consensus(r) ==
    /\ sync_with_network(r)
    /\ last' = NoAnswer
    /\ UNCHANGED sync_threads

\* The sync thread that receive_block started on replica r gets the service
\* lock and runs
sync_thread(r) ==
    /\ r \in sync_threads
    /\ sync_with_network(r)
    /\ last' = NoAnswer
    /\ sync_threads' = sync_threads \ {r}

\* POST /sync on replica r: a sync cycle, answered when it is complete
force_sync(r) ==
    /\ sync_with_network(r)
    /\ last' = Answer("sync", r, NoRequest, 200, NoError)
    /\ UNCHANGED sync_threads

\* ----------------------------------------------------------------- network
\* The link between the replicas goes down or comes back
Partition ==
    /\ connected' = ~connected
    /\ last' = NoAnswer
    /\ UNCHANGED <<chain, mempool, mining, net, clock, sync_threads, db,
                   handlers,
                   current_metadata, lock_calls>>

\* ------------------------------------------------------------- the requests
\* The metadata keys the validators read: "from" and "to"
Metadata(from, to) == [from |-> from, to |-> to]

NoMetadata == Metadata(None, None)

Request(batch_id, action, actor, metadata, timestamp) ==
    [batch_id |-> batch_id, action |-> action, actor |-> actor,
     metadata |-> metadata, timestamp |-> timestamp, signature |-> Absent,
     complete |-> TRUE]

\* The timestamp a client puts in the transactions it signs
ClientStamp == isoformat(0)

\* crypto_utils.create_signed_transaction: a request with the client's
\* timestamp and the actor's signature over the canonical form
create_signed_transaction(actor_name, batch_id, action, metadata) ==
    LET transaction_data == [batch_id |-> batch_id, action |-> action,
                             actor |-> actor_name, metadata |-> metadata,
                             timestamp |-> ClientStamp]
    IN  [Request(batch_id, action, actor_name, metadata, ClientStamp)
            EXCEPT !.signature = sign_transaction(actor_name, transaction_data)]

\* What clients post to the replicas of the cluster
ClusterRequests ==
    {Request("B1", "registered", "Supplier_A", NoMetadata, Absent),
     Request("B1", "quality_checked", "Supplier_A", NoMetadata, Absent)}

\* ------------------------------------------------------- the specification
Init ==
    /\ chain = [r \in Replicas |-> <<create_genesis_block(StartTime(r))>>]
    /\ mempool = [r \in Replicas |-> <<>>]
    /\ mining = [r \in Replicas |-> Idle]
    /\ net = {}
    /\ connected = TRUE
    /\ clock = BootClock
    /\ sync_threads = {}
    /\ db = [r \in Replicas |-> Saved(chain[r], mempool[r])]
    /\ handlers = {}
    /\ current_metadata = [r \in DOMAIN chain |-> NoMetadata]
    /\ lock_calls = [t \in ThreadNames |-> NoCall]
    /\ last = NoAnswer

Next ==
    \/ \E r \in Replicas, req \in ClusterRequests : add_transaction(r, req)
    \/ \E msg \in net : receive_transaction(msg)
    \/ \E r \in Replicas : mine_block(r)
    \/ \E r \in Replicas : auto_mining_daemon(r)
    \/ \E r \in Replicas : MineFinish(r)
    \/ \E msg \in net : receive_block(msg)
    \/ \E r \in Replicas : periodic_consensus(r)
    \/ \E r \in Replicas : sync_thread(r)
    \/ Partition

Spec == Init /\ [][Next]_vars

\* ------------------------------------------------ a leader and its clients
\* One replica that is cut off from its peers, so that detect_master names it,
\* restarted on the chain it persisted in an earlier run.
Leader == "blockchain1"

\* The eight steps of test_correct_sequence
CanonicalSteps ==
    <<Request("B1", "registered", "Supplier_A", NoMetadata, Absent),
      Request("B1", "quality_checked", "Supplier_A", NoMetadata, Absent),
      Request("B1", "shipped", "Supplier_A",
              Metadata("Supplier_A", "Distributor_B"), Absent),
      Request("B1", "received", "Distributor_B", Metadata("Supplier_A", None), Absent),
      Request("B1", "stored", "Distributor_B", NoMetadata, Absent),
      Request("B1", "delivered", "Distributor_B", NoMetadata, Absent),
      Request("B1", "received_retail", "Retailer_C",
              Metadata("Distributor_B", None), Absent),
      Request("B1", "sold", "Retailer_C", NoMetadata, Absent)>>

\* The clock reading at which the earlier run created its genesis block: it
\* left two readings for each step, all of them before this run's
EarlierBoot == 0 - 2 * Len(CanonicalSteps)

\* The chain the earlier run left when it admitted and mined, one after the
\* other, the first k canonical steps
RECURSIVE Confirmed(_)
Confirmed(k) ==
    IF k = 0 THEN <<create_genesis_block(EarlierBoot)>>
    ELSE LET c == Confirmed(k - 1)
             res == Blockchain_add_transaction(c, <<>>, EarlierBoot + 2 * (k - 1),
                                               CanonicalSteps[k])
         IN  chain_append(res.chain,
                          NewBlock(res.chain[Len(res.chain)], res.mempool,
                                   res.clock + 1))

\* Signed requests: two as their signers made them, one whose metadata was
\* altered after signing, one signed with the key of an actor the key
\* directory does not have, and one sent without its timestamp
SignedRequests ==
    {create_signed_transaction("Supplier_A", "B1", "registered", NoMetadata),
     create_signed_transaction("Supplier_A", "B1", "quality_checked", NoMetadata),
     [create_signed_transaction("Supplier_A", "B1", "registered", NoMetadata)
         EXCEPT !.metadata = Metadata("Supplier_A", None)],
     create_signed_transaction("SUPPLIER_X", "B1", "registered", NoMetadata),
     [create_signed_transaction("Supplier_A", "B1", "registered", NoMetadata)
         EXCEPT !.timestamp = Absent]}

\* What clients post to the leader: the canonical steps, steps by another
\* identity of the right or of the wrong role, receipts that name another
\* sender or none, the first step again under the timestamp it was confirmed
\* with, and a body without its "metadata" key
LeaderRequests ==
    {CanonicalSteps[i] : i \in DOMAIN CanonicalSteps}
    \cup {Request("B1", "registered", "SUPPLIER_X", NoMetadata, Absent),
          Request("B1", "registered", "Distributor_B", NoMetadata, Absent),
          Request("B1", "quality_checked", "Distributor_B", NoMetadata, Absent),
          Request("B1", "received", "Retailer_C", Metadata("Supplier_A", None), Absent),
          Request("B1", "received", "Distributor_C", Metadata("Supplier_A", None), Absent),
          Request("B1", "received", "Distributor_B", Metadata("SUPPLIER_X", None), Absent),
          Request("B1", "received", "Distributor_B", NoMetadata, Absent),
          Request("B1", "received_retail", "Retailer_C", NoMetadata, Absent),
          Request("B1", "received_retail", "Retailer_C",
                  Metadata("Distributor_C", None), Absent),
          Request("B1", "stored", "Distributor_C", NoMetadata, Absent),
          Request("B1", "sold", "Retailer_D", NoMetadata, Absent),
          Request("B1", "registered", "Supplier_A", NoMetadata,
                  isoformat(EarlierBoot + 1)),
          [Request("B1", "registered", "Supplier_A", NoMetadata, Absent)
               EXCEPT !.complete = FALSE]}
    \cup SignedRequests


InitLeader ==
    /\ \E k \in 0..Len(CanonicalSteps) :
           chain = [r \in Replicas |->
                       IF r = Leader THEN Confirmed(k)
                       ELSE <<create_genesis_block(StartTime(r))>>]
    /\ mempool = [r \in Replicas |-> <<>>]
    /\ mining = [r \in Replicas |-> Idle]
    /\ net = {}
    /\ connected = FALSE
    /\ clock = BootClock
    /\ sync_threads = {}
    /\ db = [r \in Replicas |-> Saved(chain[r], mempool[r])]
    /\ handlers = {}
    /\ current_metadata = [r \in DOMAIN chain |-> NoMetadata]
    /\ lock_calls = [t \in ThreadNames |-> NoCall]
    /\ last = NoAnswer

NextLeader ==
    \/ \E req \in LeaderRequests : add_transaction(Leader, req)
    \/ mine_block(Leader)
    \/ auto_mining_daemon(Leader)
    \/ MineFinish(Leader)

SpecLeader == InitLeader /\ [][NextLeader]_vars

\* ----------------------------------------------- a follower and its peers
\* One replica that follows the leader: both were restarted on chains they
\* persisted in an earlier run, the follower's at most one block behind, and
\* the follower holds what it merged from the leader's mempool.
Follower == "blockchain2"

\* The number of canonical steps the follower's chain can start with
MaxConfirmed == 2

\* The transaction that add_transaction stores for a request that carries its
\* timestamp
AsTransaction(req) ==
    [batch_id |-> req.batch_id, action |-> req.action, actor |-> req.actor,
     metadata |-> req.metadata, timestamp |-> req.timestamp,
     signature |-> req.signature]

\* Two transactions of other batches that the leader admitted while it was
\* mining and dropped when mine_block emptied its mempool: one unsigned with a
\* client timestamp, one signed
Stray ==
    <<AsTransaction(Request("B2", "registered", "Supplier_A", NoMetadata,
                            ClientStamp)),
      AsTransaction(create_signed_transaction("Supplier_A", "B3", "registered",
                                              NoMetadata))>>

\* A transaction whose metadata was altered after it was signed
Forged ==
    AsTransaction(
        [create_signed_transaction("Supplier_A", "B4", "registered", NoMetadata)
            EXCEPT !.metadata = Metadata("Supplier_A", None)])

\* The transaction of canonical step j as the leader confirmed it
ConfirmedTx(j) == Confirmed(j)[j + 1].transactions[1]

\* What the follower can hold pending when its chain has j canonical steps
FollowerMempools(j) ==
    {<<>>,
     <<ConfirmedTx(j + 1)>>,
     <<ConfirmedTx(j + 1), Stray[1]>>,
     <<Stray[1], ConfirmedTx(j + 1), Stray[2]>>}

\* The body of a POST /receive-block to replica r
Post(r, block) ==
    [to |-> r, endpoint |-> "/receive-block", data |-> block, copies |-> 1]

\* The blocks that reach replica r: the blocks of the leader's chain and of its
\* own chain (each is broadcast more than once), and blocks a peer made on
\* top of r's tip: one that holds a step r's chain already has, one that
\* holds a transaction with a bad signature, and one whose transactions were
\* changed after it was mined
PeerBlocks(r) ==
    LET tip == chain[r][Len(chain[r])]
        mined == ChainTxs(chain[r])
    IN  {chain[Leader][i] : i \in 2..Len(chain[Leader])}
        \cup {chain[r][i] : i \in 2..Len(chain[r])}
        \cup {NewBlock(tip, <<mined[i]>>, clock) : i \in DOMAIN mined}
        \cup {NewBlock(tip, <<Forged>>, clock),
              [NewBlock(tip, <<Stray[1]>>, clock) EXCEPT !.transactions = <<Forged>>]}

InitFollower ==
    /\ \E j \in 0..MaxConfirmed, k \in 0..(MaxConfirmed + 1) :
           /\ k \in {j, j + 1}
           /\ chain = [r \in Replicas |->
                          IF r = Leader THEN Confirmed(k) ELSE Confirmed(j)]
           /\ \E mp \in FollowerMempools(j) :
                  mempool = [r \in Replicas |-> IF r = Leader THEN <<>> ELSE mp]
    /\ mining = [r \in Replicas |-> Idle]
    /\ net = {}
    /\ connected = TRUE
    /\ clock = BootClock
    /\ sync_threads = {}
    /\ db = [r \in Replicas |-> Saved(chain[r], mempool[r])]
    /\ handlers = {}
    /\ current_metadata = [r \in DOMAIN chain |-> NoMetadata]
    /\ lock_calls = [t \in ThreadNames |-> NoCall]
    /\ last = NoAnswer

NextFollower ==
    \/ \E block \in PeerBlocks(Follower) : receive_block(Post(Follower, block))
    \/ periodic_consensus(Follower)
    \/ sync_thread(Follower)

SpecFollower == InitFollower /\ [][NextFollower]_vars

\* The sync thread that receive_block starts blocks on the service lock, which
\* every handler releases, so it runs
SpecFollowerFair == SpecFollower /\ WF_vars(sync_thread(Follower))

\* ------------------------------------------- a replica outside the list
\* A replica started with a --hostname that is not an entry of
\* MASTER_PRIORITY (the default is "localhost"), next to blockchain1; the
\* other replicas of the list are down.  Both were restarted on chains they
\* persisted in an earlier run.
Outsider == "localhost"

InitOutsider ==
    /\ \E j \in 0..MaxConfirmed, k \in 0..MaxConfirmed :
           chain = [r \in {Leader, Outsider} |->
                       IF r = Leader THEN Confirmed(k) ELSE Confirmed(j)]
    /\ mempool = [r \in {Leader, Outsider} |-> <<>>]
    /\ mining = [r \in {Leader, Outsider} |-> Idle]
    /\ net = {}
    /\ connected \in BOOLEAN
    /\ clock = BootClock
    /\ sync_threads = {}
    /\ db = [r \in {Leader, Outsider} |-> Saved(chain[r], mempool[r])]
    /\ handlers = {}
    /\ current_metadata = [r \in DOMAIN chain |-> NoMetadata]
    /\ lock_calls = [t \in ThreadNames |-> NoCall]
    /\ last = NoAnswer

NextOutsider ==
    \/ \E req \in LeaderRequests : add_transaction(Outsider, req)
    \/ mine_block(Outsider)
    \/ Partition

SpecOutsider == InitOutsider /\ [][NextOutsider]_vars

\* ------------------------------------------- a replica that syncs with two
\* The follower with two peers, blockchain1 and blockchain3, all restarted on
\* the chains their databases held.  A database can hold a chain with a hole:
\* a block that accept_block appended was never saved, and the block mined on
\* top of it was.
Holed(k) ==
    LET c == Confirmed(k)
    IN  SubSeq(c, 1, Len(c) - 2) \o <<c[Len(c)]>>

\* The chains the follower can start with: valid ones and ones with a hole
LocalChains ==
    {Confirmed(j) : j \in 0..MaxConfirmed}
    \cup {Holed(j) : j \in 2..(MaxConfirmed + 1)}

\* The chains GET /chain of a peer can serve
PeerChains ==
    {Confirmed(k) : k \in 0..(MaxConfirmed + 1)} \cup {Holed(MaxConfirmed + 1)}

SyncHosts == {"blockchain1", Follower, "blockchain3"}

InitSync ==
    /\ \E local \in LocalChains, c1 \in PeerChains, c3 \in PeerChains :
           chain = [r \in SyncHosts |->
                       IF r = Follower THEN local
                       ELSE IF r = "blockchain1" THEN c1 ELSE c3]
    /\ mempool = [r \in SyncHosts |-> <<>>]
    /\ mining = [r \in SyncHosts |-> Idle]
    /\ net = {}
    /\ connected = TRUE
    /\ clock = BootClock
    /\ sync_threads = {}
    /\ db = [r \in SyncHosts |-> Saved(chain[r], mempool[r])]
    /\ handlers = {}
    /\ current_metadata = [r \in DOMAIN chain |-> NoMetadata]
    /\ lock_calls = [t \in ThreadNames |-> NoCall]
    /\ last = NoAnswer

NextSync ==
    \/ force_sync(Follower)
    \/ periodic_consensus(Follower)
    \/ Partition

SpecSync == InitSync /\ [][NextSync]_vars

\* ------------------------------------------- two handlers of one request
\* The server answers each request on a thread of its own and the route of
\* POST /add-transaction takes no lock, so that a second thread may run its
\* checks after the first has run its own and before it has appended.  The two
\* replicas were restarted on the same chain and a client posts to both of
\* them the request it stamped itself.
MaxHandlers == 2

\* The requests of the canonical steps under the client's timestamp
RaceRequests ==
    {[CanonicalSteps[i] EXCEPT !.timestamp = ClientStamp] :
        i \in 1..(MaxConfirmed + 1)}

\* The thread that handles req at replica r, up to and including step 2 of
\* Blockchain.add_transaction on the leader: a refusal is answered at once,
\* otherwise the thread holds the transaction it built
add_transaction_Validate(r, req) ==
    LET master == detect_master(r, Len(chain[r]))
        history == get_history(chain[master], req.batch_id)
        res == Blockchain_add_transaction(chain[master], mempool[master], clock, req)
        refused == \/ ~req.complete
                   \/ HasKey(history, req.batch_id, req.action, req.timestamp)
                   \/ HasKey(mempool[master], req.batch_id, req.action,
                             req.timestamp)
                   \/ ~res.ok
    IN  IF master = None \/ ~Reaches(r, master) \/ refused
        THEN add_transaction(r, req)
        ELSE /\ Cardinality(handlers) < MaxHandlers
             /\ handlers' = handlers \cup
                    {[node |-> r, master |-> master, request |-> req,
                      tx |-> res.mempool[Len(res.mempool)], phase |-> "store"]}
             /\ current_metadata' = SetMetadata(master, req.metadata)
             /\ last' = NoAnswer
             /\ UNCHANGED <<chain, mempool, mining, net, connected, clock,
                            sync_threads, db, lock_calls>>

\* The thread h goes on: steps 3 and 4 of Blockchain.add_transaction, the
\* broadcast and the answer
add_transaction_Store(h) ==
    LET m == h.master
        res == StoreTransaction(chain[m], mempool[m], clock, h.tx)
    IN  /\ h \in handlers
        /\ h.phase = "store"
        /\ res.locks => mining[m] = Idle
        /\ res.clock - BootClock <= MaxClock
        /\ handlers' = handlers \ {h}
        /\ chain' = [chain EXCEPT ![m] = res.chain]
        /\ mempool' = [mempool EXCEPT ![m] = res.mempool]
        /\ db' = [db EXCEPT ![m] = Persisted(@, res)]
        /\ clock' = res.clock
        /\ net' = Broadcast(IF res.mined
                            THEN Broadcast(net, m, "/receive-block",
                                           res.chain[Len(res.chain)], 1)
                            ELSE net,
                            m, "/receive-transaction", h.request, 1)
        /\ last' = Answer("add-transaction", h.node, h.request, 201, NoError)
        /\ UNCHANGED <<mining, connected, sync_threads, current_metadata,
                       lock_calls>>

InitRace ==
    /\ \E k \in 0..MaxConfirmed : chain = [r \in Replicas |-> Confirmed(k)]
    /\ mempool = [r \in Replicas |-> <<>>]
    /\ mining = [r \in Replicas |-> Idle]
    /\ net = {}
    /\ connected = TRUE
    /\ clock = BootClock
    /\ sync_threads = {}
    /\ db = [r \in Replicas |-> Saved(chain[r], mempool[r])]
    /\ handlers = {}
    /\ current_metadata = [r \in DOMAIN chain |-> NoMetadata]
    /\ lock_calls = [t \in ThreadNames |-> NoCall]
    /\ last = NoAnswer

NextRace ==
    \/ \E r \in Replicas, req \in RaceRequests : add_transaction_Validate(r, req)
    \/ \E h \in handlers : add_transaction_Store(h)
    \/ mine_block(Leader)
    \/ MineFinish(Leader)

SpecRace == InitRace /\ [][NextRace]_vars

\* ------------------------------------------------- the mempools of the peers
\* A follower among two peers that hold pending transactions: everyone was
\* restarted on the genesis block of the earlier run, or on a chain with a hole.
\* What GET /mempool of a peer can serve
PeerMempools ==
    {<<>>,
     <<ConfirmedTx(1)>>,
     <<ConfirmedTx(1), Stray[1]>>,
     <<Stray[1], Stray[2]>>,
     <<Stray[2], Forged, ConfirmedTx(1)>>}

\* What the follower can hold pending before its sync cycle
LocalMempools == {<<>>, <<Stray[1]>>, <<ConfirmedTx(1)>>}

MergeChains == {Confirmed(0), Holed(2)}

InitMerge ==
    /\ \E local \in MergeChains, c1 \in MergeChains, c3 \in MergeChains :
           chain = [r \in SyncHosts |->
                       IF r = Follower THEN local
                       ELSE IF r = "blockchain1" THEN c1 ELSE c3]
    /\ \E mp \in LocalMempools, m1 \in PeerMempools, m3 \in PeerMempools :
           mempool = [r \in SyncHosts |->
                         IF r = Follower THEN mp
                         ELSE IF r = "blockchain1" THEN m1 ELSE m3]
    /\ mining = [r \in SyncHosts |-> Idle]
    /\ net = {}
    /\ connected = TRUE
    /\ clock = BootClock
    /\ sync_threads = {}
    /\ db = [r \in SyncHosts |-> Saved(chain[r], mempool[r])]
    /\ handlers = {}
    /\ current_metadata = [r \in DOMAIN chain |-> NoMetadata]
    /\ lock_calls = [t \in ThreadNames |-> NoCall]
    /\ last = NoAnswer

NextMerge ==
    \/ force_sync(Follower)
    \/ Partition

SpecMerge == InitMerge /\ [][NextMerge]_vars

\* --------------------------------------- two validations on one Blockchain
\* Blockchain.add_transaction keeps the metadata of the request it validates
\* in self.current_metadata, which validate_actor_permissions reads back: a
\* second thread may store its own between the two.  The leader was restarted
\* on a chain that ends with the shipment or with the delivery of B1, and
\* clients post receipts and the registration of another batch.
PairingStarts == {Confirmed(3), Confirmed(6)}

PairingRequests ==
    {Request("B1", "received", "Distributor_B", Metadata("Supplier_A", None),
             ClientStamp),
     Request("B1", "received", "Distributor_B", Metadata("SUPPLIER_X", None),
             ClientStamp),
     Request("B1", "received_retail", "Retailer_C",
             Metadata("Distributor_B", None), ClientStamp),
     Request("B1", "received_retail", "Retailer_C",
             Metadata("Distributor_C", None), ClientStamp),
     Request("B2", "registered", "Supplier_A", NoMetadata, ClientStamp)}

\* The thread that handles req at replica r, up to
\* self.current_metadata = metadata on the leader: a refusal before that line
\* is answered at once
add_transaction_Begin(r, req) ==
    LET master == detect_master(r, Len(chain[r]))
        history == get_history(chain[master], req.batch_id)
        order == validate_transaction_order(chain[master], mempool[master],
                                            req.batch_id, req.action)
        stamped == req.signature = Absent /\ req.timestamp = Absent
        refused == \/ ~req.complete
                   \/ HasKey(history, req.batch_id, req.action, req.timestamp)
                   \/ HasKey(mempool[master], req.batch_id, req.action,
                             req.timestamp)
                   \/ req.signature # Absent /\ req.timestamp = Absent
                   \/ ~order.valid
    IN  IF master = None \/ ~Reaches(r, master) \/ refused
        THEN add_transaction(r, req)
        ELSE /\ Cardinality(handlers) < MaxHandlers
             /\ stamped => ClockLeft(1)
             /\ handlers' = handlers \cup
                    {[node |-> r, master |-> master, request |-> req,
                      tx |-> NewTransaction(req, clock + 1),
                      phase |-> "permissions"]}
             /\ current_metadata' = SetMetadata(master, req.metadata)
             /\ clock' = IF stamped THEN clock + 1 ELSE clock
             /\ last' = NoAnswer
             /\ UNCHANGED <<chain, mempool, mining, net, connected, sync_threads,
                            db, lock_calls>>

\* Whether thread h passes validate_actor_permissions and the signature
\* check when self.current_metadata holds metadata
Permitted(h, metadata) ==
    /\ validate_actor_permissions(chain[h.master], h.tx.batch_id, h.tx.action,
                                  h.tx.actor, metadata).valid
    /\ h.tx.signature # Absent => verify_transaction(h.tx)

\* The thread h goes on: validate_actor_permissions, which reads
\* self.current_metadata as it is now, and step 2 of
\* Blockchain.add_transaction; a refusal is answered by the route
add_transaction_Permissions(h) ==
    LET m == h.master
        history == get_history(chain[m], h.tx.batch_id)
    IN  /\ h \in handlers
        /\ h.phase = "permissions"
        /\ IF Permitted(h, current_metadata[m])
           THEN /\ handlers' = (handlers \ {h}) \cup {[h EXCEPT !.phase = "store"]}
                /\ last' = NoAnswer
           ELSE /\ handlers' = handlers \ {h}
                /\ last' = IF h.tx.action \in Actions(history)
                           THEN Answer("add-transaction", h.node, h.request, 409,
                                       Msg1("Action already performed"))
                           ELSE Answer("add-transaction", h.node, h.request, 400,
                                       Msg1("Transaction validation failed"))
        /\ UNCHANGED <<chain, mempool, mining, net, connected, clock,
                       sync_threads, db, current_metadata, lock_calls>>

InitPairing ==
    /\ \E c \in PairingStarts : chain = [r \in Replicas |-> c]
    /\ mempool = [r \in Replicas |-> <<>>]
    /\ mining = [r \in Replicas |-> Idle]
    /\ net = {}
    /\ connected = TRUE
    /\ clock = BootClock
    /\ sync_threads = {}
    /\ db = [r \in Replicas |-> Saved(chain[r], mempool[r])]
    /\ handlers = {}
    /\ current_metadata = [r \in DOMAIN chain |-> NoMetadata]
    /\ lock_calls = [t \in ThreadNames |-> NoCall]
    /\ last = NoAnswer

NextPairing ==
    \/ \E req \in PairingRequests : add_transaction_Begin(Leader, req)
    \/ \E h \in handlers : add_transaction_Permissions(h)
    \/ \E h \in handlers : add_transaction_Store(h)

SpecPairing == InitPairing /\ [][NextPairing]_vars

\* ------------------------------------------------------------ the two locks
\* blockchain_service.py line 18 and blockchain.py line 11: two threading.Lock
\* objects, both named lock in their modules.  A threading.Lock is not
\* reentrant.
service_lock == "blockchain_service.lock"
blockchain_lock == "blockchain.lock"
Locks == {service_lock, blockchain_lock}

\* Entering and leaving a with lock block
Acquire(l) == <<"acquire", l>>
Release(l) == <<"release", l>>

\* Blockchain.mine_block holds the blockchain lock from line 449 to each of
\* its returns; proof_of_work, broadcast_block (requests.post with timeout=3)
\* and _delete_mempool_db run inside and take no lock
mine_block_Locks_Syncing ==
    <<Acquire(blockchain_lock), Acquire(service_lock), Release(service_lock),
      Release(blockchain_lock)>>

mine_block_Locks == <<Acquire(blockchain_lock), Release(blockchain_lock)>>

\* Blockchain.sync_mempool, lines 507-532
sync_mempool_Locks == <<Acquire(blockchain_lock), Release(blockchain_lock)>>

\* sync_with_network holds the service lock from line 54 to its end, and
\* calls blockchain.sync_mempool inside it when a peer's mempool is larger
\* (lines 141-144)
sync_with_network_Locks(merge) ==
    <<Acquire(service_lock)>>
    \o (IF merge THEN sync_mempool_Locks ELSE <<>>)
    \o <<Release(service_lock)>>

\* POST /receive-block, lines 389-403: accept_block takes no lock, and the sync
\* thread it starts runs on its own
receive_block_Locks == <<Acquire(service_lock), Release(service_lock)>>

\* POST /reload-from-db, lines 536-548
reload_from_db_Locks == <<Acquire(service_lock), Release(service_lock)>>

\* What each thread can call: periodic_consensus (line 583) and the thread
\* that receive_block starts (line 394) run sync_with_network, the mining
\* daemon runs mine_block (line 622), and a request is POST /receive-block,
\* POST /reload-from-db, POST /sync (line 514), POST /mine (line 376), or an
\* add_transaction that fills the mempool (blockchain.py line 427)
Calls(t) ==
    CASE t \in {"periodic_consensus", "sync_thread"} ->
             {sync_with_network_Locks(merge) : merge \in BOOLEAN}
      [] t = "auto_mining_daemon" -> {mine_block_Locks}
      [] t = "request" ->
             {receive_block_Locks, reload_from_db_Locks, mine_block_Locks}
             \cup {sync_with_network_Locks(merge) : merge \in BOOLEAN}

\* The locks a thread holds after the first n lock statements of its call
RECURSIVE HeldAfter(_, _)
HeldAfter(program, n) ==
    IF n = 0 THEN {}
    ELSE LET before == HeldAfter(program, n - 1)
             op == program[n]
         IN  IF op[1] = "acquire" THEN before \cup {op[2]}
             ELSE before \ {op[2]}

Held(t) == HeldAfter(lock_calls[t].program, lock_calls[t].done)

\* The lock statement thread t is at
AtStatement(t) == lock_calls[t].done < Len(lock_calls[t].program)
NextStatement(t) == lock_calls[t].program[lock_calls[t].done + 1]

\* Thread t is at a with lock statement
Acquiring(t, l) == AtStatement(t) /\ NextStatement(t) = Acquire(l)

\* lock.acquire() blocks while any thread, the caller included, holds the lock
Blocked(t) ==
    \E l \in Locks : Acquiring(t, l) /\ \E u \in ThreadNames : l \in Held(u)

\* Thread t enters one of its calls
StartCall(t) ==
    /\ lock_calls[t] = NoCall
    /\ \E program \in Calls(t) :
           lock_calls' = [lock_calls EXCEPT ![t] = [program |-> program, done |-> 0]]
    /\ UNCHANGED <<chain, mempool, mining, net, connected, clock, sync_threads,
                   db, handlers, current_metadata, last>>

\* Thread t runs up to and through its next lock statement
RunCall(t) ==
    /\ AtStatement(t)
    /\ ~Blocked(t)
    /\ lock_calls' = [lock_calls EXCEPT ![t].done = @ + 1]
    /\ UNCHANGED <<chain, mempool, mining, net, connected, clock, sync_threads,
                   db, handlers, current_metadata, last>>

\* Thread t returns from its call, after the last lock statement of it
ReturnCall(t) ==
    /\ lock_calls[t] # NoCall
    /\ ~AtStatement(t)
    /\ lock_calls' = [lock_calls EXCEPT ![t] = NoCall]
    /\ UNCHANGED <<chain, mempool, mining, net, connected, clock, sync_threads,
                   db, handlers, current_metadata, last>>

InitLocks ==
    /\ chain = [r \in Replicas |-> <<create_genesis_block(StartTime(r))>>]
    /\ mempool = [r \in Replicas |-> <<>>]
    /\ mining = [r \in Replicas |-> Idle]
    /\ net = {}
    /\ connected = TRUE
    /\ clock = BootClock
    /\ sync_threads = {}
    /\ db = [r \in Replicas |-> Saved(chain[r], mempool[r])]
    /\ handlers = {}
    /\ current_metadata = [r \in DOMAIN chain |-> NoMetadata]
    /\ lock_calls = [t \in ThreadNames |-> NoCall]
    /\ last = NoAnswer

NextLocks ==
    \/ \E t \in ThreadNames : StartCall(t)
    \/ \E t \in ThreadNames : RunCall(t)
    \/ \E t \in ThreadNames : ReturnCall(t)

\* A thread that can run does run, and a thread waiting for a lock that is
\* released again and again gets it
SpecLocks ==
    /\ InitLocks
    /\ [][NextLocks]_vars
    /\ \A t \in ThreadNames : SF_vars(RunCall(t))

\* ------------------------------------------------------------------ claims
Workflow ==
    <<"registered", "quality_checked", "shipped", "received", "stored",
      "delivered", "received_retail", "sold">>

Batches == {"B1"}

IsPrefix(s, t) == Len(s) <= Len(t) /\ s = SubSeq(t, 1, Len(s))

ActionSeq(txs) == [i \in DOMAIN txs |-> txs[i].action]

\* C1: on every replica every non-genesis block links to the hash of the block
\* before it, has the hash that recomputing gives, and that hash starts with
\* `difficulty` zero digits.
C1_ChainLinkedAndMined ==
    \A r \in Replicas : \A i \in 2..Len(chain[r]) :
        /\ chain[r][i].previous_hash = chain[r][i - 1].hash
        /\ compute_hash(chain[r][i]) = chain[r][i].hash
        /\ HasDifficultyPrefix(chain[r][i].hash)

\* C2: on every replica the actions of each batch, read in chain order, are a
\* prefix of the eight-step workflow.
C2_WorkflowPrefix ==
    \A r \in Replicas : \A b \in Batches :
        IsPrefix(ActionSeq(get_history(chain[r], b)), Workflow)

\* C3: on every replica no composite key (batch_id, action, timestamp) occurs
\* twice in the transactions of the chain followed by those of the mempool.
C3_UniqueKeys ==
    \A r \in Replicas :
        LET all == ChainTxs(chain[r]) \o mempool[r]
        IN  \A i, j \in DOMAIN all :
                (/\ all[i].batch_id = all[j].batch_id
                 /\ all[i].action = all[j].action
                 /\ all[i].timestamp = all[j].timestamp) => i = j

\* Whether every transaction of chain c is at the same place in chain d
KeepsTransactions(c, d) ==
    \A i \in DOMAIN c : \A j \in DOMAIN c[i].transactions :
        /\ i <= Len(d)
        /\ j <= Len(d[i].transactions)
        /\ d[i].transactions[j] = c[i].transactions[j]

Posted(req) ==
    /\ last'.op = "add-transaction"
    /\ last'.node = Leader
    /\ last'.request = req

\* The steps of batch B1 the leader knows: those of its chain, then those
\* pending in its mempool
Prior == get_history(chain[Leader], "B1") \o SelectBatch(mempool[Leader], "B1")

SamePayload(tx, req) ==
    /\ tx.batch_id = req.batch_id
    /\ tx.action = req.action
    /\ tx.actor = req.actor
    /\ tx.metadata = req.metadata

\* C5: when the steps the leader knows of the batch are the first n canonical
\* steps, mined or pending, the next canonical step is answered 201.
C5_CanonicalOrderAccepted ==
    [][\A n \in 0..(Len(CanonicalSteps) - 1) :
          (/\ Len(Prior) = n
           /\ \A i \in 1..n : SamePayload(Prior[i], CanonicalSteps[i])
           /\ Posted(CanonicalSteps[n + 1]))
          => last'.status = 201]_vars

\* C6: a step whose predecessor is neither in the chain nor in the mempool is
\* answered 400 with an error text that names the predecessor, and the chain
\* and the mempool stay as they are.
C6_MissingPredecessorRejected ==
    [][\A req \in LeaderRequests :
          (/\ Posted(req)
           /\ req.complete
           /\ strict_sequence(req.action) # None
           /\ strict_sequence(req.action) \notin Actions(Prior))
          => /\ last'.status = 400
             /\ \E i \in DOMAIN last'.error :
                    last'.error[i] = strict_sequence(req.action)
             /\ UNCHANGED <<chain, mempool>>]_vars

\* The request repeats a step the leader already knows, without a timestamp
RepeatsAdmitted(req) ==
    /\ req.complete
    /\ req.timestamp = Absent
    /\ \E i \in DOMAIN Prior : SamePayload(Prior[i], req)

C8_MinedKeyIs409 ==
    [][\A req \in LeaderRequests :
          (/\ Posted(req)
           /\ req.complete
           /\ HasKey(ChainTxs(chain[Leader]), req.batch_id, req.action,
                     req.timestamp))
          => last'.status = 409 /\ UNCHANGED <<chain, mempool>>]_vars

\* C8 witness: the leader answered 409 to a request whose key is in a block
\* that is not the last one of its chain.
C8_ResubmittedMined ==
    /\ last.op = "add-transaction"
    /\ last.status = 409
    /\ \E i \in 1..(Len(chain[Leader]) - 1) :
           HasKey(chain[Leader][i].transactions, last.request.batch_id,
                  last.request.action, last.request.timestamp)

\* actor.lower().startswith(the role the action requires)
HasRole(tx) == LowerStartsWith(tx.actor, actor_roles(tx.action))

\* C9: after every step each transaction of the leader's mempool has an actor
\* that begins, lower-cased, with the role of its action; a request that does
\* not is refused and leaves the chain and the mempool as they are.
C9_ActorHasRole ==
    [][/\ \A i \in DOMAIN mempool'[Leader] : HasRole(mempool'[Leader][i])
       /\ \A req \in LeaderRequests :
              (Posted(req) /\ ~HasRole(req))
              => last'.status # 201 /\ UNCHANGED <<chain, mempool>>]_vars

\* C9 witness: after SUPPLIER_X registered the batch, its quality check by a
\* distributor was refused.
C9_WrongRoleRefused ==
    /\ last.op = "add-transaction"
    /\ last.status = 400
    /\ last.request.action = "quality_checked"
    /\ ~HasRole(last.request)
    /\ Len(Prior) = 1
    /\ Prior[1].action = "registered"
    /\ Prior[1].actor = "SUPPLIER_X"

GroupInternal == {"quality_checked", "shipped", "stored", "delivered", "sold"}

\* C10: a group-internal step is admitted only from the actor of the latest
\* step the leader knows of the batch, in its chain or pending in its mempool.
C10_GroupStepBySameActor ==
    [][\A req \in LeaderRequests :
          (Posted(req) /\ last'.status = 201 /\ req.action \in GroupInternal)
          => Prior # <<>> /\ req.actor = Prior[Len(Prior)].actor]_vars

Receipts == {"received", "received_retail"}

\* C11: a receipt (received, received_retail) is admitted only if its
\* metadata.from is the actor of the batch's earlier shipped (delivered) step
\* and, when that step has a metadata.to, its actor is that metadata.to; so a
\* receipt without a `from` is not admitted.
C11_ReceiptMatchesShipment ==
    [][\A req \in LeaderRequests :
          (Posted(req) /\ last'.status = 201 /\ req.action \in Receipts)
          => /\ strict_sequence(req.action) \in Actions(Prior)
             /\ LET sent == FirstWith(Prior, strict_sequence(req.action))
                IN  /\ req.metadata.from = sent.actor
                    /\ sent.metadata.to # None => req.actor = sent.metadata.to]_vars

\* The request carries a signature that does not verify
BadlySigned(req) == req.signature # Absent /\ ~verify_transaction(req)

\* C13: a signed request whose signature does not match its canonical form is
\* answered 401 and is not stored in the mempool.
C13_BadSignatureIs401 ==
    [][\A req \in LeaderRequests :
          (Posted(req) /\ req.complete /\ req.timestamp # Absent /\ BadlySigned(req))
          => last'.status = 401 /\ UNCHANGED <<chain, mempool>>]_vars

\* The transaction the request just answered put in the leader's mempool
Admitted == mempool'[Leader][Len(mempool'[Leader])]

\* C14: a request with a signature and no timestamp is refused and leaves the
\* chain and the mempool as they are; an admitted signed request is stored
\* with the timestamp of the client; an admitted request with neither is
\* stored with the reading of the server clock.
C14_SignedTimestampVerbatim ==
    [][\A req \in LeaderRequests :
          /\ (Posted(req) /\ req.complete /\ req.signature # Absent
                /\ req.timestamp = Absent)
             => last'.status # 201 /\ UNCHANGED <<chain, mempool>>
          /\ (Posted(req) /\ last'.status = 201 /\ req.signature # Absent)
             => Admitted.timestamp = req.timestamp /\ SamePayload(Admitted, req)
          /\ (Posted(req) /\ last'.status = 201 /\ req.signature = Absent
                /\ req.timestamp = Absent)
             => Admitted.timestamp = <<clock + 1>> /\ clock' > clock]_vars

\* C14 witness: the leader admitted a signed request and its mempool ends
\* with that transaction under the client's timestamp.
C14_SignedAdmitted ==
    /\ last.op = "add-transaction"
    /\ last.status = 201
    /\ last.request.signature # Absent
    /\ mempool[Leader] # <<>>
    /\ mempool[Leader][Len(mempool[Leader])].timestamp = ClientStamp
    /\ mempool[Leader][Len(mempool[Leader])].signature = last.request.signature

\* C15: with an empty mempool no mining starts on the leader, and POST /mine
\* is answered 400 and leaves the chain, the mempool and the requests in
\* flight as they are.
C15_EmptyMempoolNotMined ==
    [][mempool[Leader] = <<>>
          => /\ mining[Leader] = Idle => mining'[Leader] = Idle
             /\ (last'.op = "mine" /\ last'.node = Leader)
                => last'.status = 400 /\ UNCHANGED <<chain, mempool, net>>]_vars

\* C15 witness: the leader, with blocks in its chain and nothing pending, has
\* answered 400 to POST /mine.
C15_MineRefused ==
    /\ last.op = "mine"
    /\ last.node = Leader
    /\ last.status = 400
    /\ mempool[Leader] = <<>>
    /\ mining[Leader] = Idle
    /\ Len(chain[Leader]) > 1

\* C16: a mine_block call starts on a replica, and a block mined inside
\* add_transaction is appended to its chain, only when detect_master names
\* that replica.
C16_OnlyLeaderMines ==
    [][\A r \in Replicas :
          (\/ mining[r] = Idle /\ mining'[r] # Idle
           \/ /\ last'.op \in {"add-transaction", "receive-transaction"}
              /\ Len(chain'[r]) > Len(chain[r]))
          => detect_master(r, Len(chain[r])) = r]_vars

\* C12: on every replica every transaction of the chain or the mempool that
\* carries a signature verifies against its canonical signed form under the
\* key of its actor.
C12_StoredSignaturesVerify ==
    \A r \in Replicas :
        LET all == ChainTxs(chain[r]) \o mempool[r]
        IN  \A i \in DOMAIN all :
                all[i].signature # Absent => verify_transaction(all[i])

\* The step just taken answered a POST /receive-block with this block at the
\* follower
Received(block) ==
    /\ last'.op = "receive-block"
    /\ last'.node = Follower
    /\ last'.request = block

\* The newest block of the follower's chain
Tip == chain[Follower][Len(chain[Follower])]

\* C17: a block whose previous_hash is not the hash of the follower's tip is
\* answered 409, leaves the chain and the mempool as they are and starts a
\* sync thread; a started sync thread runs.
C17_MismatchStartsSync ==
    /\ [][\A block \in PeerBlocks(Follower) :
              (Received(block) /\ block.previous_hash # Tip.hash)
              => /\ last'.status = 409
                 /\ UNCHANGED <<chain, mempool>>
                 /\ Follower \in sync_threads']_vars
    /\ (Follower \in sync_threads) ~> (Follower \notin sync_threads)

\* C17 witness: the follower answered 409 to a block of the leader that does
\* not link to its tip, and its sync thread is started.
C17_SyncStarted ==
    /\ last.op = "receive-block"
    /\ last.node = Follower
    /\ last.status = 409
    /\ last.request.previous_hash # Tip.hash
    /\ last.request = chain[Leader][Len(chain[Leader])]
    /\ Follower \in sync_threads

\* C18: a block that is already in the follower's chain, posted again, is
\* answered 200, leaves the chain and the mempool as they are and starts no
\* sync.
C18_RepeatedBlockIs200 ==
    [][\A i \in 2..Len(chain[Follower]) :
          Received(chain[Follower][i])
          => /\ last'.status = 200
             /\ UNCHANGED <<chain, mempool, sync_threads>>]_vars

\* The composite key of transaction tx is the key of a transaction of block
InBlock(tx, block) ==
    \E i \in DOMAIN block.transactions :
        /\ block.transactions[i].batch_id = tx.batch_id
        /\ block.transactions[i].action = tx.action
        /\ block.transactions[i].timestamp = tx.timestamp

\* C19: when the follower accepts a block, its chain is the old chain followed
\* by that block, and its mempool is the old one without the transactions whose
\* key is in the block: the others are all there, in their order.
C19_AcceptAppendsAndPrunes ==
    [][\A block \in PeerBlocks(Follower) :
          (Received(block) /\ last'.status = 200)
          => LET old == mempool[Follower]
                 new == mempool'[Follower]
                 kept == {i \in DOMAIN old : ~InBlock(old[i], block)}
                 rank(i) == Cardinality({k \in kept : k <= i})
             IN  /\ Len(chain'[Follower]) = Len(chain[Follower]) + 1
                 /\ SubSeq(chain'[Follower], 1, Len(chain[Follower]))
                        = chain[Follower]
                 /\ chain'[Follower][Len(chain'[Follower])] = block
                 /\ Len(new) = Cardinality(kept)
                 /\ \A i \in kept : new[rank(i)] = old[i]]_vars

\* C19 witness: the follower accepted a block with transactions and two of
\* the three transactions it held pending are left, the signed one last.
C19_PrunedAroundSurvivors ==
    /\ last.op = "receive-block"
    /\ last.node = Follower
    /\ last.status = 200
    /\ last.request.transactions # <<>>
    /\ Tip = last.request
    /\ mempool[Follower] = Stray

C28_MempoolBounded ==
    \A r \in Replicas : Len(mempool[r]) <= max_mempool_size

\* C30: no sync cycle runs on a replica between the start and the end of a
\* mine_block call, so the block the miner appends links to the block that
\* is the tip of the chain when it is appended.
C30_MinerAppendsOnTip ==
    [][\A r \in Replicas :
          (mining[r] # Idle /\ mining'[r] = Idle)
          => /\ Len(chain'[r]) = Len(chain[r]) + 1
             /\ chain'[r][Len(chain'[r])].previous_hash
                    = chain[r][Len(chain[r])].hash]_vars

C21_FollowerForwards ==
    [][\A r \in Replicas :
          LET m == detect_master(r, Len(chain[r]))
              req == last'.request
          IN  (last'.op = "add-transaction" /\ last'.node = r /\ m # r)
              => /\ chain'[r] = chain[r] /\ mempool'[r] = mempool[r]
                 /\ last'.status = 503 <=> ~connected'
                 /\ last'.status = 503 => UNCHANGED <<chain, mempool, net>>
                 /\ last'.status = 201
                    <=> /\ mempool'[m] # <<>>
                        /\ mempool'[m] # mempool[m]
                        /\ SamePayload(mempool'[m][Len(mempool'[m])], req)
                        /\ mempool'[m][Len(mempool'[m])].signature = req.signature
                 /\ last'.status \notin {201, 503}
                    => UNCHANGED <<chain, mempool, net>>]_vars

\* C21 witness: blockchain2, a follower of blockchain1, answered 201 to a
\* request that is now the last one of blockchain1's mempool, and holds
\* nothing itself.
C21_ForwardedToLeader ==
    /\ last.op = "add-transaction"
    /\ last.node = "blockchain2"
    /\ last.status = 201
    /\ detect_master("blockchain2", Len(chain["blockchain2"])) = "blockchain1"
    /\ mempool["blockchain2"] = <<>>
    /\ mempool["blockchain1"] # <<>>
    /\ SamePayload(mempool["blockchain1"][Len(mempool["blockchain1"])],
                   last.request)

\* C27: whenever no mine_block call is running on a replica, loading its
\* database as a restart does gives the chain it holds in memory, block by
\* block, and the mempool it holds in memory, transaction by transaction.
C27_StoreIsMemory ==
    \A r \in Replicas :
        mining[r] = Idle
        => /\ _load_from_db(db[r]).chain = chain[r]
           /\ _load_from_db(db[r]).mempool = mempool[r]

\* The place of a host in MASTER_PRIORITY; a host that is not in the list
\* comes after those that are
Priority(host) ==
    IF \E i \in DOMAIN MASTER_PRIORITY : MASTER_PRIORITY[i] = host
    THEN CHOOSE i \in DOMAIN MASTER_PRIORITY : MASTER_PRIORITY[i] = host
    ELSE Len(MASTER_PRIORITY) + 1

\* C23: POST /add-transaction on a replica that reaches no replica of the
\* priority list is handled by that replica as leader: it is not answered
\* 503, and the registration of a batch that the replica does not know, by a
\* supplier, is answered 201.
C23_IsolatedReplicaAdmits ==
    [][(/\ last'.op = "add-transaction"
        /\ last'.node = Outsider
        /\ \A i \in DOMAIN MASTER_PRIORITY :
               ~Reaches(Outsider, MASTER_PRIORITY[i]))
       => /\ last'.status # 503
          /\ (/\ last'.request = CanonicalSteps[1]
              /\ get_history(chain[Outsider], "B1") = <<>>
              /\ mempool[Outsider] = <<>>)
             => last'.status = 201]_vars

\* C24: for every running replica, detect_master names a replica of the pool
\* (the replica itself and the replicas of the priority list it reaches) whose
\* chain is at least as long as that of every replica of the pool and that
\* comes first in the priority list among those of that length.
C24_MasterIsLongestAlive ==
    \A local \in Hosts :
        LET m == detect_master(local, Len(chain[local]))
            pool == {local} \cup {p \in Hosts : /\ Priority(p) <= Len(MASTER_PRIORITY)
                                                /\ Reaches(local, p)}
        IN  /\ m \in pool
            /\ \A p \in pool :
                   \/ Len(chain[m]) > Len(chain[p])
                   \/ Len(chain[m]) = Len(chain[p]) /\ Priority(m) <= Priority(p)

\* The step just taken is a complete sync cycle of the follower
Synced == last'.op = "sync" /\ last'.node = Follower

\* The peers whose chain a sync cycle of the follower fetches
ReachablePeers == {p \in nodes(Follower) : Reaches(Follower, p)}

\* C25: a sync cycle changes the follower's chain only into the chain of a
\* reachable peer that passes is_chain_valid, and only when the follower's
\* chain is invalid or shorter than it; after a cycle that started with a
\* valid chain the follower's chain is valid and at least as long as its old
\* chain and as every valid chain of a reachable peer.
C25_SyncAdoptsLongestValid ==
    [][Synced
       => LET old == chain[Follower]
              new == chain'[Follower]
          IN  /\ new # old
                 => /\ \E p \in ReachablePeers :
                           new = chain[p] /\ is_chain_valid(chain[p])
                    /\ ~is_chain_valid(old) \/ Len(new) > Len(old)
              /\ is_chain_valid(old)
                 => /\ is_chain_valid(new)
                    /\ Len(new) >= Len(old)
                    /\ \A p \in ReachablePeers :
                           is_chain_valid(chain[p]) => Len(new) >= Len(chain[p])]_vars

\* C25 witness: after a sync cycle the follower holds the chain of
\* blockchain3, longer than any chain it can start with, while blockchain1
\* serves a valid chain that is shorter.
C25_AdoptedLongest ==
    /\ last.op = "sync"
    /\ connected
    /\ chain[Follower] = Confirmed(MaxConfirmed + 1)
    /\ chain[Follower] = chain["blockchain3"]
    /\ is_chain_valid(chain["blockchain1"])
    /\ Len(chain["blockchain1"]) < Len(chain[Follower])
    /\ Len(chain["blockchain1"]) > 1

\* C26: a sync cycle that starts with an invalid chain on the follower, while
\* a reachable peer serves a valid chain, leaves the follower with a valid
\* chain that is at least as long as every valid chain of a reachable peer.
C26_InvalidChainHealedByLongest ==
    [][(/\ Synced
        /\ ~is_chain_valid(chain[Follower])
        /\ \E p \in ReachablePeers : is_chain_valid(chain[p]))
       => /\ is_chain_valid(chain'[Follower])
          /\ \A p \in ReachablePeers :
                 is_chain_valid(chain[p])
                 => Len(chain'[Follower]) >= Len(chain[p])]_vars

\* C29: a transaction a client submits to both replicas at once, under one
\* timestamp, is admitted once: no replica's chain holds two transactions of
\* one key, and no request is answered 201 while the leader already holds a
\* transaction of its key, on its chain or in its mempool
C29_SubmittedTwiceAdmittedOnce ==
    [][/\ \A r \in Replicas :
              \A i, j \in DOMAIN ChainTxs(chain'[r]) :
                  LET a == ChainTxs(chain'[r])[i]
                      b == ChainTxs(chain'[r])[j]
                  IN  /\ a.batch_id = b.batch_id
                      /\ a.action = b.action
                      /\ a.timestamp = b.timestamp
                      => i = j
       /\ last'.op = "add-transaction" /\ last'.status = 201
          => \A r \in Replicas :
                 ~HasKey(ChainTxs(chain[r]) \o mempool[r], last'.request.batch_id,
                         last'.request.action, last'.request.timestamp)]_vars

\* The transactions of a sequence, as a set
Range(txs) == {txs[i] : i \in DOMAIN txs}

\* C31: when a mine_block call of a replica returns, every transaction that
\* was in its mempool is on its chain or still in its mempool: a transaction
\* admitted while the block was being mined is not dropped
C31_AdmittedSurvivesMining ==
    [][\A r \in Replicas :
           mining[r] # Idle /\ mining'[r] = Idle
           => Range(mempool[r]) \subseteq
                  Range(ChainTxs(chain'[r])) \cup Range(mempool'[r])]_vars

\* C32: with the replicas connected, a follower that has handled the broadcast
\* of a mined block and run the sync cycle this started holds the leader's
\* chain, block for block, that chain is valid, and the history of the batch
\* is the same on both
C32_FollowerCatchesUp ==
    [][\A r \in Replicas :
           (r \in sync_threads /\ r \notin sync_threads' /\ connected)
           => LET master == detect_master(r, Len(chain[r]))'
              IN  /\ chain'[r] = chain'[master]
                  /\ is_chain_valid(chain'[r])
                  /\ get_history(chain'[r], "B1") = get_history(chain'[master], "B1")]_vars

\* C33: the block of a mine_block call holds the mempool of the moment of the
\* snapshot, in its order, without the transactions that are on the chain;
\* the call appends that one block on the tip, with the tip's index plus one
\* and the tip's hash, and leaves the mempool empty; and the indices of the
\* blocks of a chain go up by one from block to block
C33_MinedBlockExtendsTip ==
    [][\A r \in Replicas :
           /\ (mining[r] = Idle /\ mining'[r] # Idle)
              => mining'[r][1].transactions = FilterMined(chain[r], mempool[r])
           /\ (mining[r] # Idle /\ mining'[r] = Idle)
              => LET last_block == chain[r][Len(chain[r])]
                     new_block == chain'[r][Len(chain'[r])]
                 IN  /\ chain'[r] = Append(chain[r], mining[r][1])
                     /\ new_block.index = last_block.index + 1
                     /\ new_block.previous_hash = last_block.hash
                     /\ mempool'[r] = <<>>
           /\ \A i \in 1..(Len(chain'[r]) - 1) :
                  chain'[r][i + 1].index = chain'[r][i].index + 1]_vars

\* Whether a sync cycle leaves transaction tx of a fetched mempool out: its key
\* is pending on the follower, or it is signed and its signature is bad
LeftOut(tx) ==
    \/ HasKey(mempool[Follower], tx.batch_id, tx.action, tx.timestamp)
    \/ tx.signature # Absent /\ ~verify_transaction(tx)

FetchedPeers ==
    {p \in ReachablePeers :
        is_chain_valid(chain[Follower]) \/ is_chain_valid(chain[p])}

C35_ValidationUsesOwnMetadata ==
    [][\A h \in handlers :
           (h.phase = "permissions" /\ h \notin handlers')
           => ([h EXCEPT !.phase = "store"] \in handlers'
               <=> Permitted(h, h.request.metadata))]_vars

\* C36: while the replicas reach each other, detect_master names the same
\* host on every replica, one replica takes itself for the leader, and POST
\* /mine is refused with 403 on every other replica and only there
C36_OneLeaderWhenConnected ==
    [][connected
       => /\ \A r, q \in Replicas :
                 detect_master(r, Len(chain[r])) = detect_master(q, Len(chain[q]))
          /\ Cardinality({r \in Replicas : detect_master(r, Len(chain[r])) = r}) = 1
          /\ (last'.op = "mine" /\ last'.status \in {400, 403})
             => (last'.status = 403
                 <=> \E q \in Replicas :
                         detect_master(q, Len(chain[q])) # last'.node)]_vars

\* C36 witness: the replicas reach each other, blockchain2 has the longer
\* chain, and blockchain1, first in the priority list, has just refused to
\* mine
C36_LongerChainLeads ==
    /\ connected
    /\ Len(chain["blockchain2"]) > Len(chain["blockchain1"])
    /\ last.op = "mine"
    /\ last.status = 403
    /\ last.node = "blockchain1"

\* Thread t is not stuck: it can run, or it waits for a lock whose holder is
\* another thread that is not stuck; a thread past its last lock statement
\* holds nothing
RECURSIVE CanProceed(_, _)
CanProceed(t, n) ==
    IF ~AtStatement(t) THEN Held(t) = {}
    ELSE \/ ~Blocked(t)
         \/ /\ n > 0
            /\ \E l \in Locks :
                   /\ Acquiring(t, l)
                   /\ \A u \in ThreadNames :
                          l \in Held(u) => u # t /\ CanProceed(u, n - 1)

\* C37: the threads of one replica never deadlock on its two locks: where a
\* thread takes both it takes the service lock first, no thread acquires a lock
\* it holds, no thread waits in a cycle, and every lock a thread holds is
\* released again
C37_LocksNeverDeadlock ==
    /\ [](\A t \in ThreadNames :
              /\ Acquiring(t, service_lock) => blockchain_lock \notin Held(t)
              /\ \A l \in Locks : Acquiring(t, l) => l \notin Held(t)
              /\ CanProceed(t, Cardinality(Locks)))
    /\ \A t \in ThreadNames, l \in Locks : (l \in Held(t)) ~> (l \notin Held(t))

\* sync_with_network holds both locks, inside sync_mempool, while the mining
\* daemon waits for the blockchain lock, and receive_block and the other
\* sync_with_network for the service lock
C37_SyncHoldsBothOthersWait ==
    /\ Held("sync_thread") = Locks
    /\ Acquiring("auto_mining_daemon", blockchain_lock)
    /\ lock_calls["request"].program = receive_block_Locks
    /\ Acquiring("request", service_lock)
    /\ Acquiring("periodic_consensus", service_lock)

\* C38: a mined block is posted to each peer once: no request to
\* /receive-block is in flight in more than one copy, and the follower is never
\* handed a block of the leader that is already its own tip, to answer it 409
\* and start a sync.
C38_MinedBlockPostedOnce ==
    /\ [](\A msg \in net : msg.endpoint = "/receive-block" => msg.copies = 1)
    /\ [][\A block \in PeerBlocks(Follower) :
              (Received(block) /\ block = Tip)
              => (last'.status # 409 /\ Follower \notin sync_threads')]_vars

\* C39: when a call of mine_block that found transactions pending returns, with
\* a block (201) or without one (400), no transaction left in the mempool has
\* its composite key on the chain.
C39_MiningLeavesNoMinedPending ==
    [][\A r \in Replicas :
           (/\ last'.op = "mine"
            /\ last'.node = r
            /\ last'.status \in {201, 400}
            /\ mempool[r] # <<>>)
           => FilterMined(chain'[r], mempool'[r]) = mempool'[r]]_vars

\* A sync cycle of replica r would leave its chain as it is
SyncChangesNothing(r) ==
    \A order \in Orders(nodes(r)) :
        LET job == SyncLoop(r, order, [longest_chain |-> chain[r],
                                       chain_replaced |-> FALSE,
                                       max_mempool |-> mempool[r]])
        IN  ~(job.chain_replaced /\ job.longest_chain # chain[r])

\* C40: with the replicas connected, every chain valid, nothing pending, in
\* flight or being mined, and every replica through its sync cycle (one more
\* cycle changes no chain), the replicas hold the same chain.
C40_SyncedReplicasAgree ==
    (/\ connected
     /\ net = {}
     /\ handlers = {}
     /\ sync_threads = {}
     /\ \A r \in Replicas :
            /\ mining[r] = Idle
            /\ mempool[r] = <<>>
            /\ is_chain_valid(chain[r])
            /\ SyncChangesNothing(r))
    => \A r1, r2 \in Replicas : chain[r1] = chain[r2]

====
